---- MODULE Spec2Model ----
(***************************************************************************)
(* A model of the S3 downloader extension: region-aware object retrieval   *)
(* (src/utils/s3.ts), destination-folder resolution                        *)
(* (src/utils/vscode/settings.ts), collision-free file naming              *)
(* (src/utils/download.ts), S3 URI parsing and validation, and the two    *)
(* commands with the whole of downloadToFile (src/commands).              *)
(*                                                                         *)
(* Strings are modelled as sequences of tokens; a token is an atomic piece *)
(* of text ("s3", ".", "eu-central-1", ...).  JavaScript's undefined is    *)
(* the value None where it has to be told apart from the empty string.     *)
(***************************************************************************)
EXTENDS Integers, Sequences, FiniteSets, TLC

VARIABLES
  \* ---- getS3Object (src/utils/s3.ts) ----
  rpc,        \* where getS3Object stands: idle, start, detecting, fetch1, fetch2, done, failed
  config,     \* the S3Config argument: [bucket, key, region]
  envRegion,  \* process.env.AWS_REGION
  region,     \* the local variable `region` of getS3Object
  calls,      \* the requests sent to S3 so far: <<[op, region], ...>>
  responses,  \* the responses S3 gave, in order
  outcome,    \* what getS3Object returned or threw
  detectThrew,\* whether detectBucketRegion threw in this call
  log,        \* the calls made on the logger: <<[level, msg], ...>>
  \* ---- getConfiguredDownloadFolder (src/utils/vscode/settings.ts) ----
  fpc,        \* where the resolution stands: idle, start, done
  settings,   \* getSettings(): [downloadLocation, customDownloadPath, alwaysPromptForLocation]
  workspaceFolders, \* vscode.workspace.workspaceFolders: [defined, folders]
  sysEnv,     \* os.platform() and the environment: [platform, USERPROFILE, XDG_DOWNLOAD_DIR]
  dirs,       \* the directories that exist
  resolved,   \* what getConfiguredDownloadFolder returned
  \* ---- downloadToFile, getUniqueFilePath (src/utils/download.ts) ----
  upc,        \* where the choice of the final path stands: idle, start, done
  downloadFolder, \* the local variable `downloadFolder` of downloadToFile
  fileName,   \* config.fileName, as tokens
  overwrite,  \* config.overwrite
  entries,    \* the names that exist in downloadFolder (files or directories)
  finalPath,  \* the local variable `finalPath` of downloadToFile: [dir, name]
  \* ---- parseAndValidateS3Uri (src/utils/s3.ts) ----
  ppc,        \* where the parse stands: idle, start, done
  rawUri,     \* the argument `uri`, as tokens
  s3UrlLib,   \* how the amazon-s3-url package behaves where its documentation is silent
  parsed,     \* what parseAndValidateS3Uri returned or threw
  \* ---- downloadToFile, whole (src/utils/download.ts) ----
  dl,         \* the calls of downloadToFile in flight, each with its locals:
              \* <<[pc, fileName, givenFolder, folder, finalPath, stream, error], ...>>
  fileData,   \* the content of the files that exist: path -> [by, state]
  \* ---- the commands (src/commands/*.ts, download-with-progress.ts) ----
  cpc,        \* where the command stands: idle, start, promptUri, retrieving,
              \* downloading, notifying, acting, opening, ended
  command,    \* which command runs: download (downloadS3File) or open (openS3File)
  shown,      \* the messages shown to the user: <<[kind, text], ...>>
  settled     \* how the command's promise settled: pending, resolved, rejected

s3Vars == <<rpc, config, envRegion, region, calls, responses, outcome, detectThrew>>
folderVars == <<fpc, settings, workspaceFolders, sysEnv, dirs, resolved>>
fileVars == <<upc, downloadFolder, fileName, overwrite, entries, finalPath>>
parseVars == <<ppc, rawUri, s3UrlLib, parsed>>
dlVars == <<dl, fileData>>
cmdVars == <<cpc, command, shown, settled>>
vars == <<s3Vars, log, folderVars, fileVars, parseVars, dlVars, cmdVars>>

None == "<undefined>"

\* ------------------------------------------------------------------------
\* Bounds of the model
\* ------------------------------------------------------------------------

\* The most names that exist in the download folder before a download.
MaxEntries == 4

\* The highest counter among the suffixed names that may exist beforehand.
MaxCounter == 3

\* The most tokens of a URI after its scheme and host.
MaxUriBody == 5

\* ------------------------------------------------------------------------
\* Text helpers
\* ------------------------------------------------------------------------
RECURSIVE Concat(_)
Concat(toks) == IF toks = <<>> THEN "" ELSE Head(toks) \o Concat(Tail(toks))

\* ------------------------------------------------------------------------
\* The endpoint pattern /s3[.-]([a-z0-9-]+)\.amazonaws\.com/ of
\* detectBucketRegion and getS3Object, over token sequences.
\* ------------------------------------------------------------------------

\* The tokens made only of characters of the class [a-z0-9-].
ClassTokens == {"s3", "-", "amazonaws", "com", "eu-central-1", "us-west-2", "eu-west-1"}

\* The diagnostic messages S3 errors carry.  <<>> stands for a message that
\* is undefined or empty: both make `message?.match(...)` falsy and both make
\* `message || 'Unknown error'` take its right-hand side.
Messages ==
  { <<>>,
    <<"Access Denied">>,
    <<"The bucket is in this region: ", "eu-central-1">>,
    <<"Use endpoint ", "bucket", ".", "s3", ".", "eu-central-1", ".", "amazonaws", ".", "com">>,
    <<"Use endpoint ", "bucket", ".", "s3", "-", "us-west-2", ".", "amazonaws", ".", "com">>,
    <<"Use endpoint ", "bucket", ".", "s3", ".", "amazonaws", ".", "com">>,
    <<"Use endpoint ", "my", "-", "s3", ".", "s3", ".", "amazonaws", ".", "com">> }

\* The end of the longest run of class tokens of msg that starts at index i
\* (i - 1 when msg[i] is no class token): the greedy group ([a-z0-9-]+).
RECURSIVE ClassRunEnd(_, _)
ClassRunEnd(msg, i) ==
  IF i <= Len(msg) /\ msg[i] \in ClassTokens THEN ClassRunEnd(msg, i + 1) ELSE i - 1

\* Whether the pattern matches msg with its literal "s3" at index i.
MatchesAt(msg, i) ==
  /\ i + 1 <= Len(msg)
  /\ msg[i] = "s3"
  /\ msg[i + 1] \in {".", "-"}
  /\ LET e == ClassRunEnd(msg, i + 2)
     IN  /\ e >= i + 2
         /\ e + 4 <= Len(msg)
         /\ SubSeq(msg, e + 1, e + 4) = <<".", "amazonaws", ".", "com">>

\* message.match(pattern): the captured group of the leftmost match as a
\* string, or None when nothing matches (match returns null).
EndpointMatch(msg) ==
  LET starts == {i \in 1..Len(msg) : MatchesAt(msg, i)}
  IN  IF starts = {} THEN None
      ELSE LET i == CHOOSE k \in starts : \A m \in starts : k <= m
           IN  Concat(SubSeq(msg, i + 2, ClassRunEnd(msg, i + 2)))

\* The test of a plausible slip: every error with an HTTP status of 301 or
\* above counts as a redirect.
IsRedirectAnyStatus(error) == error.name = "PermanentRedirect" \/ error.status >= 301

\* `error?.name === 'PermanentRedirect' || error?.$metadata?.httpStatusCode === 301`
IsRedirect(error) == error.name = "PermanentRedirect" \/ error.status = 301

\* The extraction of a plausible slip: the captured text "s3" is taken for
\* a region.
ExtractedRegionAllowS3(error) ==
  LET g == EndpointMatch(error.message)
  IN  IF g /= None THEN g ELSE None

\* `endpointMatch && endpointMatch[1] !== 's3'`: the region a redirect error
\* names, or None.
ExtractedRegion(error) ==
  LET g == EndpointMatch(error.message)
  IN  IF g /= None /\ g /= "s3" THEN g ELSE None

\* ------------------------------------------------------------------------
\* Paths.  A path is the sequence of its components, the root "/" first
\* when it is absolute; <<>> is the empty string (and an unset variable of
\* the environment, which the code tells apart from it nowhere).
\* ------------------------------------------------------------------------

\* path.join(p, name)
Join(p, name) == Append(p, name)

\* path.isAbsolute(p)
IsAbsolute(p) == p /= <<>> /\ p[1] = "/"

\* path.dirname(p): the root is its own parent.
Dirname(p) == IF Len(p) <= 1 THEN p ELSE SubSeq(p, 1, Len(p) - 1)

\* `!customPath || customPath.trim() === ''`: nothing but white space.
IsBlank(p) == \A i \in 1..Len(p) : p[i] = " "

\* os.homedir(), os.tmpdir()
HomeDir == <<"/", "home", "user">>
TmpDir == <<"/", "tmp">>

Null == [kind |-> "null"]
Folder(p) == [kind |-> "folder", path |-> p]

\* ------------------------------------------------------------------------
\* Destination-folder resolution (settings.ts)
\* ------------------------------------------------------------------------

\* getSystemDownloadsFolder
SystemDownloadsFolder ==
  CASE sysEnv.platform = "win32" ->
         IF sysEnv.USERPROFILE /= <<>> THEN Join(sysEnv.USERPROFILE, "Downloads")
         ELSE Join(HomeDir, "Downloads")
    [] sysEnv.platform = "darwin" -> Join(HomeDir, "Downloads")
    [] sysEnv.platform = "linux" ->
         IF sysEnv.XDG_DOWNLOAD_DIR /= <<>> THEN sysEnv.XDG_DOWNLOAD_DIR
         ELSE Join(HomeDir, "Downloads")
    [] OTHER -> Join(HomeDir, "Downloads")

\* getSystemTempFolder: [value, logs]
SystemTempFolder ==
  [value |-> Folder(Join(TmpDir, "s3Downloader")),
   logs  |-> << <<"debug", "Using temp folder">> >>]

\* The resolution of a plausible slip, and of the function's own comment
\* ("or null if no workspace is open"): null without a workspace.
WorkspaceDownloadFolderOrNull ==
  IF ~workspaceFolders.defined \/ Len(workspaceFolders.folders) = 0
  THEN [value |-> Null,
        logs  |-> << <<"warn", "No workspace folder available, falling back to Downloads folder">> >>]
  ELSE [value |-> Folder(workspaceFolders.folders[1]),
        logs  |-> << <<"debug", "Using workspace root">> >>]

\* getWorkspaceDownloadFolder: [value, logs]
WorkspaceDownloadFolder ==
  IF ~workspaceFolders.defined \/ Len(workspaceFolders.folders) = 0
  THEN [value |-> Folder(SystemDownloadsFolder),
        logs  |-> << <<"warn", "No workspace folder available, falling back to Downloads folder">> >>]
  ELSE [value |-> Folder(workspaceFolders.folders[1]),
        logs  |-> << <<"debug", "Using workspace root">> >>]

\* The resolution of a plausible slip: the parent directory is not looked at.
CustomDownloadFolderNoParentCheck(customPath) ==
  IF customPath = <<>> \/ IsBlank(customPath)
  THEN [value |-> Folder(SystemDownloadsFolder),
        logs  |-> << <<"warn", "Custom download path is empty, falling back to Downloads folder">> >>]
  ELSE IF ~IsAbsolute(customPath)
  THEN [value |-> Folder(SystemDownloadsFolder),
        logs  |-> << <<"error", "Custom download path must be absolute">>,
                     <<"warn", "Falling back to Downloads folder">> >>]
  ELSE [value |-> Folder(customPath),
        logs  |-> << <<"debug", "Using custom download path">> >>]

\* getCustomDownloadFolder(customPath): [value, logs]
CustomDownloadFolder(customPath) ==
  IF customPath = <<>> \/ IsBlank(customPath)
  THEN [value |-> Folder(SystemDownloadsFolder),
        logs  |-> << <<"warn", "Custom download path is empty, falling back to Downloads folder">> >>]
  ELSE IF ~IsAbsolute(customPath)
  THEN [value |-> Folder(SystemDownloadsFolder),
        logs  |-> << <<"error", "Custom download path must be absolute">>,
                     <<"warn", "Falling back to Downloads folder">> >>]
  ELSE IF Dirname(customPath) \notin dirs
  THEN [value |-> Folder(SystemDownloadsFolder),
        logs  |-> << <<"debug", "Using custom download path">>,
                     <<"error", "Parent directory does not exist">>,
                     <<"warn", "Falling back to Downloads folder">> >>]
  ELSE [value |-> Folder(customPath),
        logs  |-> << <<"debug", "Using custom download path">> >>]

\* The dispatch of getConfiguredDownloadFolder on settings.downloadLocation.
DispatchOnLocation ==
  CASE settings.downloadLocation = "downloads" ->
         [value |-> Folder(SystemDownloadsFolder), logs |-> <<>>]
    [] settings.downloadLocation = "workspace" -> WorkspaceDownloadFolder
    [] settings.downloadLocation = "temp" -> SystemTempFolder
    [] settings.downloadLocation = "custom" -> CustomDownloadFolder(settings.customDownloadPath)
    [] OTHER ->
         [value |-> Folder(SystemDownloadsFolder),
          logs  |-> << <<"warn", "Unknown download location setting">> >>]

\* The resolution of a plausible slip: the prompt option applies to the
\* downloads strategy alone.
ConfiguredDownloadFolderPromptForDownloads ==
  IF settings.alwaysPromptForLocation /\ settings.downloadLocation = "downloads"
  THEN [value |-> Null, logs |-> << <<"debug", "Always prompt for location is enabled">> >>]
  ELSE DispatchOnLocation

\* getConfiguredDownloadFolder: [value, logs], value Null to have the
\* caller prompt.
ConfiguredDownloadFolder ==
  IF settings.alwaysPromptForLocation
  THEN [value |-> Null, logs |-> << <<"debug", "Always prompt for location is enabled">> >>]
  ELSE DispatchOnLocation

\* One call of getConfiguredDownloadFolder.
ResolveFolder ==
  /\ fpc = "start"
  /\ resolved' = ConfiguredDownloadFolder.value
  /\ log' = log \o ConfiguredDownloadFolder.logs
  /\ fpc' = "done"
  /\ UNCHANGED <<settings, workspaceFolders, sysEnv, dirs>>

\* The values of s3Downloader.customDownloadPath tried: empty, blank,
\* relative, absolute below /data, absolute below /missing, the root.
CustomPaths ==
  { <<>>, <<" ">>, <<"data", "s3">>, <<"/", "data", "s3">>, <<"/", "missing", "s3">>, <<"/">> }

\* The directories every run starts with, and those that may exist besides.
BaseDirs == { <<"/">>, <<"/", "home">>, HomeDir, TmpDir }

DirChoices ==
  { BaseDirs, BaseDirs \cup {<<"/", "data">>},
    BaseDirs \cup {<<"/", "data">>, <<"/", "data", "s3">>} }

FolderInputs ==
  /\ settings \in [downloadLocation : {"downloads", "workspace", "temp", "custom", "desktop"},
                   customDownloadPath : CustomPaths,
                   alwaysPromptForLocation : BOOLEAN]
  /\ workspaceFolders \in { [defined |-> FALSE, folders |-> <<>>],
                            [defined |-> TRUE, folders |-> <<>>],
                            [defined |-> TRUE, folders |-> << <<"/", "home", "user", "project">> >>] }
  /\ sysEnv \in [platform : {"win32", "darwin", "linux", "freebsd"},
                 USERPROFILE : {<<>>, <<"/", "profile">>},
                 XDG_DOWNLOAD_DIR : {<<>>, <<"/", "xdg">>}]
  /\ dirs \in DirChoices

\* ------------------------------------------------------------------------
\* The final path of a download (download.ts).  A file name is a sequence
\* of tokens: "." and "_" are tokens of their own, a counter is one token.
\* ------------------------------------------------------------------------

\* The index of the last "." of name, 0 when it has none.
LastDot(name) ==
  LET dots == {i \in 1..Len(name) : name[i] = "."}
  IN  IF dots = {} THEN 0 ELSE CHOOSE i \in dots : \A j \in dots : j <= i

\* path.extname(name): from the last "." on; empty when there is none, when
\* the only "." leads the name, and for "..".
ExtName(name) ==
  IF LastDot(name) <= 1 \/ name = <<".", ".">>
  THEN <<>> ELSE SubSeq(name, LastDot(name), Len(name))

\* path.basename(name, ext): name without its ending ext.
BaseName(name, ext) == SubSeq(name, 1, Len(name) - Len(ext))

\* `${nameWithoutExt}_${counter}${ext}`
Suffixed(name, counter) ==
  BaseName(name, ExtName(name)) \o <<"_", ToString(counter)>> \o ExtName(name)

\* fs.existsSync(path.join(folder, name)): an entry of the folder; "." and
\* ".." join to the folder itself and to its parent, which exist.
PathExists(folder, name) ==
  \/ name \in {<<".">>, <<".", ".">>}
  \/ [dir |-> folder, name |-> name] \in entries

\* The loop of a plausible slip: the counter is raised before it is used.
RECURSIVE UniqueLoopFromTwo(_, _, _, _)
UniqueLoopFromTwo(folder, name, uniquePath, counter) ==
  IF PathExists(folder, uniquePath)
  THEN UniqueLoopFromTwo(folder, name, Suffixed(name, counter + 1), counter + 1)
  ELSE uniquePath

\* The while loop of getUniqueFilePath: the name it ends with.
RECURSIVE UniqueLoop(_, _, _, _)
UniqueLoop(folder, name, uniquePath, counter) ==
  IF PathExists(folder, uniquePath)
  THEN UniqueLoop(folder, name, Suffixed(name, counter), counter + 1)
  ELSE uniquePath

\* The function of a plausible slip: the joined path is returned without a
\* look at the folder.
GetUniqueFilePathNoScan(folder, name) == [dir |-> folder, name |-> name]

\* getUniqueFilePath(folderPath, filename)
GetUniqueFilePath(folder, name) ==
  IF ~PathExists(folder, name)
  THEN [dir |-> folder, name |-> name]
  ELSE [dir |-> folder, name |-> UniqueLoop(folder, name, name, 1)]

\* downloadToFile: the choice of finalPath.
ChooseFinalPath ==
  /\ upc = "start"
  /\ finalPath' = IF overwrite
                  THEN [dir |-> downloadFolder, name |-> fileName]
                  ELSE GetUniqueFilePath(downloadFolder, fileName)
  /\ log' = Append(log, <<"info", "Saving file to">>)
  /\ upc' = "done"
  /\ UNCHANGED <<downloadFolder, fileName, overwrite, entries>>

\* The file names tried: with an extension, without, a dot file, two
\* extensions, a name that already ends in a counter, and "..".
FileNames ==
  { <<"a", ".", "txt">>, <<"a">>, <<".", "a">>, <<"a", ".", "tar", ".", "gz">>,
    <<"a", "_", "1", ".", "txt">>, <<".", ".">> }

\* The names that may exist in the folder beforehand when name is
\* downloaded: name itself, its suffixed forms, and an unrelated file.
EntryNames(name) ==
  {name, <<"b", ".", "txt">>} \cup { Suffixed(name, n) : n \in 1..MaxCounter }

\* The subsets of S of at most k elements.
RECURSIVE SubsetsUpTo(_, _)
SubsetsUpTo(S, k) ==
  IF k = 0 THEN {{}}
  ELSE LET smaller == SubsetsUpTo(S, k - 1)
       IN  smaller \cup { x \cup {e} : x \in smaller, e \in S }

NoPath == [dir |-> <<>>, name |-> <<>>]

\* ------------------------------------------------------------------------
\* URI parsing and validation (s3.ts).  A URI is a sequence of tokens: a
\* scheme-and-host prefix is one token, "/" and " " are tokens of their own.
\* ------------------------------------------------------------------------

\* String.prototype.trim: the white space at both ends goes.
RECURSIVE TrimStart(_)
TrimStart(u) == IF u /= <<>> /\ Head(u) = " " THEN TrimStart(Tail(u)) ELSE u

RECURSIVE TrimEnd(_)
TrimEnd(u) ==
  IF u /= <<>> /\ u[Len(u)] = " " THEN TrimEnd(SubSeq(u, 1, Len(u) - 1)) ELSE u

Trim(u) == TrimEnd(TrimStart(u))

\* The prefixes of the two URI forms modelled, and the region each names.
S3Scheme == "s3://"
RegionPathHost == "https://s3.eu-west-1.amazonaws.com/"

\* The index of the first "/" of u, 0 when it has none.
FirstSlash(u) ==
  LET slashes == {i \in 1..Len(u) : u[i] = "/"}
  IN  IF slashes = {} THEN 0 ELSE CHOOSE i \in slashes : \A j \in slashes : i <= j

\* parseS3Url of the amazon-s3-url package, for the forms
\* s3://<bucket>/<key> and https://s3.<region>.amazonaws.com/<bucket>/<key>:
\* the bucket is the non-empty text up to the first "/", the key the rest.
\* Any other text makes it throw.  A URI with a bucket and no key makes it
\* throw or return an empty key, as s3UrlLib.keyless says.
ParseS3Url(u) ==
  LET rest == Tail(u)
      slash == FirstSlash(rest)
      bucket == IF slash = 0 THEN rest ELSE SubSeq(rest, 1, slash - 1)
      key == IF slash = 0 THEN <<>> ELSE SubSeq(rest, slash + 1, Len(rest))
      thrown == [threw |-> TRUE, isError |-> s3UrlLib.throwsError,
                 message |-> "Invalid S3 URL"]
  IN  IF u = <<>> \/ Head(u) \notin {S3Scheme, RegionPathHost} THEN thrown
      ELSE IF bucket = <<>> THEN thrown
      ELSE IF key = <<>> /\ s3UrlLib.keyless = "throws" THEN thrown
      ELSE [threw |-> FALSE, bucket |-> bucket, key |-> key,
            region |-> IF Head(u) = RegionPathHost THEN "eu-west-1" ELSE None]

ParsedUri(bucket, key, r, isValid, errorMessage) ==
  [bucket |-> bucket, key |-> key, region |-> r, isValid |-> isValid,
   errorMessage |-> errorMessage]

\* The validation of a plausible slip: a key that ends in "/" passes.
ValidatedNoDirectoryCheck(s3Object) ==
  IF s3Object.key = <<>> \/ IsBlank(s3Object.key)
  THEN ParsedUri(s3Object.bucket, <<>>, s3Object.region, FALSE,
                 "S3 URI must include a file key (not just a bucket or directory)")
  ELSE ParsedUri(s3Object.bucket, s3Object.key, s3Object.region, TRUE, None)

\* The checks of parseAndValidateS3Uri on what parseS3Url returned.
Validated(s3Object) ==
  IF s3Object.key = <<>> \/ IsBlank(s3Object.key)
  THEN ParsedUri(s3Object.bucket, <<>>, s3Object.region, FALSE,
                 "S3 URI must include a file key (not just a bucket or directory)")
  ELSE IF s3Object.key[Len(s3Object.key)] = "/"
  THEN ParsedUri(s3Object.bucket, s3Object.key, s3Object.region, FALSE,
                 "S3 URI must point to a file, not a directory (URI ends with /)")
  ELSE ParsedUri(s3Object.bucket, s3Object.key, s3Object.region, TRUE, None)

\* The try block of parseAndValidateS3Uri: what it returns, or what is
\* thrown in it.
TryParse(uri) ==
  LET trimmedUri == Trim(uri)
  IN  IF trimmedUri = <<>>
      THEN [kind |-> "returned",
            value |-> ParsedUri(<<>>, <<>>, None, FALSE, "S3 URI cannot be empty")]
      ELSE IF ParseS3Url(trimmedUri).threw
      THEN [kind |-> "threw", error |-> ParseS3Url(trimmedUri)]
      ELSE [kind |-> "returned", value |-> Validated(ParseS3Url(trimmedUri))]

\* The function of a plausible slip: what the package throws is not caught.
ParseAndValidateS3UriNoCatch(uri) == TryParse(uri)

\* parseAndValidateS3Uri(uri): the try block, and the catch block for what
\* is thrown in it.
ParseAndValidateS3Uri(uri) ==
  IF TryParse(uri).kind = "threw"
  THEN LET error == TryParse(uri).error
           errorMessage == IF error.isError THEN error.message
                           ELSE "Invalid S3 URI format"
       IN  [kind |-> "returned",
            value |-> ParsedUri(<<>>, <<>>, None, FALSE,
                                "Failed to parse S3 URI: " \o errorMessage)]
  ELSE TryParse(uri)

\* One call of parseAndValidateS3Uri.
ParseUri ==
  /\ ppc = "start"
  /\ parsed' = ParseAndValidateS3Uri(rawUri)
  /\ ppc' = "done"
  /\ UNCHANGED <<rawUri, s3UrlLib>>

\* The token sequences over S of length n, and of length at most n.
RECURSIVE SeqsOfLen(_, _)
SeqsOfLen(S, n) ==
  IF n = 0 THEN {<<>>}
  ELSE { Append(q, x) : q \in SeqsOfLen(S, n - 1), x \in S }

SeqsUpTo(S, n) == UNION { SeqsOfLen(S, k) : k \in 0..n }

\* The URIs tried: white space or none, one of the two prefixes or none,
\* and any text of "/", a name and white space.
UriInputs ==
  { lead \o prefix \o body :
      lead \in {<<>>, <<" ">>},
      prefix \in {<<>>, <<S3Scheme>>, <<RegionPathHost>>},
      body \in SeqsUpTo({"/", "a", " "}, MaxUriBody) }

\* ------------------------------------------------------------------------
\* What S3 can answer
\* ------------------------------------------------------------------------

\* A JavaScript value is truthy unless it is undefined or the empty string.
Truthy(s) == s /= None /\ s /= ""

\* The errors the SDK client raises: name, $metadata.httpStatusCode (0 when
\* the error carries none) and message.
ErrorKinds ==
  { <<"PermanentRedirect", 301>>, <<"PermanentRedirect", 0>>, <<"UnknownError", 301>>,
    <<"NoSuchKey", 404>>, <<"AccessDenied", 403>>, <<"TimeoutError", 0>> }

S3Errors ==
  { [name |-> k[1], status |-> k[2], message |-> m] : k \in ErrorKinds, m \in Messages }

\* GetBucketLocation: a response with its LocationConstraint, or an error.
LocationConstraints == {None, "", "EU", "eu-central-1", "us-west-2"}

LocationResponses ==
  { [kind |-> "ok", LocationConstraint |-> c] : c \in LocationConstraints }
    \cup { [kind |-> "error", error |-> e] : e \in S3Errors }

\* GetObject: a response (Body present or not, ContentLength or -1 for
\* none, ContentType or None), or an error.
ObjectResponses ==
  { [kind |-> "ok", Body |-> b, ContentLength |-> n, ContentType |-> t] :
      b \in BOOLEAN, n \in {-1, 0, 7}, t \in {None, "text/plain"} }
    \cup { [kind |-> "error", error |-> e] : e \in S3Errors }

\* new Error('No file content received from S3')
NoContentError ==
  [name |-> "Error", status |-> 0, message |-> <<"No file content received from S3">>]

\* ------------------------------------------------------------------------
\* detectBucketRegion, from the answer to GetBucketLocation on
\* ------------------------------------------------------------------------

\* The wrong mapping of a plausible slip: the legacy marker is passed on.
DetectedRegionNoLegacy(resp) ==
  IF Truthy(resp.LocationConstraint) THEN resp.LocationConstraint ELSE "us-east-1"

\* The region a successful GetBucketLocation response resolves to.
DetectedRegion(resp) ==
  LET r == IF Truthy(resp.LocationConstraint) THEN resp.LocationConstraint ELSE "us-east-1"
  IN  IF r = "EU" THEN "eu-west-1" ELSE r

\* detectBucketRegion of a plausible slip: the region is taken from the
\* message of every failure, redirect or not.
DetectBucketRegionResultAnyKind(resp) ==
  IF resp.kind = "ok"
  THEN [threw |-> FALSE, value |-> DetectedRegion(resp),
        logs  |-> IF resp.LocationConstraint = "EU"
                  THEN << <<"debug", "Found legacy EU region, mapping to eu-west-1">> >>
                  ELSE << <<"info", "Detected bucket region: " \o DetectedRegion(resp)>> >>]
  ELSE LET e == resp.error
           r == ExtractedRegion(e)
           first == <<"error", "Error detecting bucket region">>
       IN  IF r /= None
           THEN [threw |-> FALSE, value |-> r,
                 logs  |-> << first, <<"info", "Extracted region from error message: " \o r>> >>]
           ELSE [threw |-> TRUE, value |-> None, logs |-> << first >>]

\* [threw, value, logs]: what detectBucketRegion returns or throws once the
\* response is in, and what it logs.
DetectBucketRegionResult(resp) ==
  IF resp.kind = "ok"
  THEN [threw |-> FALSE, value |-> DetectedRegion(resp),
        logs  |-> IF resp.LocationConstraint = "EU"
                  THEN << <<"debug", "Found legacy EU region, mapping to eu-west-1">> >>
                  ELSE << <<"info", "Detected bucket region: " \o DetectedRegion(resp)>> >>]
  ELSE LET e == resp.error
           r == ExtractedRegion(e)
           first == <<"error", "Error detecting bucket region">>
       IN  IF IsRedirect(e) /\ r /= None
           THEN [threw |-> FALSE, value |-> r,
                 logs  |-> << first, <<"info", "Extracted region from error message: " \o r>> >>]
           ELSE [threw |-> TRUE, value |-> None, logs |-> << first >>]

\* ------------------------------------------------------------------------
\* getS3Object
\* ------------------------------------------------------------------------

\* The fallback of a plausible slip: the environment is not consulted.
FallbackRegionNoEnv == "us-east-1"

\* `process.env.AWS_REGION || 'us-east-1'`
FallbackRegion == IF Truthy(envRegion) THEN envRegion ELSE "us-east-1"

GetObject(r) == [op |-> "GetObject", region |-> r]

\* The value getS3Object returns for a response with a Body.
Returned(resp) ==
  [kind |-> "returned", contentLength |-> resp.ContentLength,
   contentType |-> resp.ContentType]

Threw(e) == [kind |-> "threw", error |-> e]

\* The debug lines about the metadata of a response.
MetadataLogs(resp) ==
  (IF resp.ContentLength > 0 THEN << <<"debug", "File size">> >> ELSE <<>>)
    \o (IF Truthy(resp.ContentType) THEN << <<"debug", "Content type">> >> ELSE <<>>)

\* The lines logged from the client's creation to the send of the command.
SendLogs(r) ==
  << <<"debug", "Creating S3 client with region: " \o r>>,
     <<"info", "Downloading object from S3">> >>

\* The start of a plausible slip: the region is detected even when one is
\* given.
GetS3ObjectStartAlwaysDetect ==
  /\ rpc = "start"
  /\ region' = config.region
  /\ calls' = Append(calls, [op |-> "GetBucketLocation", region |-> "us-east-1"])
  /\ log' = log \o << <<"info", "Region not specified, attempting auto-detection...">>,
                      <<"debug", "Detecting region for bucket">> >>
  /\ rpc' = "detecting"
  /\ UNCHANGED <<config, envRegion, responses, outcome, detectThrew>>

\* getS3Object up to its first await: with a region given it sends the
\* GetObject command; with none it enters detectBucketRegion, which sends
\* GetBucketLocation through a client bound to us-east-1.
GetS3ObjectStart ==
  /\ rpc = "start"
  /\ region' = config.region
  /\ IF ~Truthy(config.region)
     THEN /\ calls' = Append(calls, [op |-> "GetBucketLocation", region |-> "us-east-1"])
          /\ log' = log \o << <<"info", "Region not specified, attempting auto-detection...">>,
                              <<"debug", "Detecting region for bucket">> >>
          /\ rpc' = "detecting"
     ELSE /\ calls' = Append(calls, GetObject(config.region))
          /\ log' = log \o << <<"info", "Using specified region: " \o config.region>> >>
                        \o SendLogs(config.region)
          /\ rpc' = "fetch1"
  /\ UNCHANGED <<config, envRegion, responses, outcome, detectThrew>>

\* The answer to GetBucketLocation arrives: detectBucketRegion returns or
\* throws, getS3Object falls back when it threw, and sends GetObject.
DetectResponse ==
  /\ rpc = "detecting"
  /\ \E resp \in LocationResponses :
       LET d == DetectBucketRegionResult(resp)
           r == IF d.threw THEN FallbackRegion ELSE d.value
       IN  /\ responses' = Append(responses, resp)
           /\ detectThrew' = d.threw
           /\ region' = r
           /\ calls' = Append(calls, GetObject(r))
           /\ log' = log \o d.logs
                         \o (IF d.threw
                             THEN << <<"warn", "Could not detect region, using default: " \o r>>,
                                     <<"debug", "Region detection error">> >>
                             ELSE <<>>)
                         \o SendLogs(r)
  /\ rpc' = "fetch1"
  /\ UNCHANGED <<config, envRegion, outcome>>

\* The error the try block of getS3Object ends with for a response that is
\* not returned: the SDK's error, or the error thrown for a missing Body.
FetchError(resp) == IF resp.kind = "error" THEN resp.error ELSE NoContentError

HasBody(resp) == resp.kind = "ok" /\ resp.Body

\* The answer to the first GetObject arrives.
Fetch1Response ==
  /\ rpc = "fetch1"
  /\ \E resp \in ObjectResponses :
       /\ responses' = Append(responses, resp)
       /\ IF HasBody(resp)
          THEN /\ outcome' = Returned(resp)
               /\ log' = log \o << <<"info", "Successfully received response from S3">> >>
                             \o MetadataLogs(resp)
               /\ rpc' = "done"
               /\ UNCHANGED calls
          ELSE LET e == FetchError(resp)
                   correctRegion == ExtractedRegion(e)
                   received == IF resp.kind = "ok"
                               THEN << <<"info", "Successfully received response from S3">> >>
                               ELSE <<>>
               IN  IF IsRedirect(e) /\ correctRegion /= None
                   THEN /\ calls' = Append(calls, GetObject(correctRegion))
                        /\ log' = log \o received
                                      \o << <<"warn", "Received redirect to region: "
                                                        \o correctRegion \o ", retrying...">> >>
                        /\ rpc' = "fetch2"
                        /\ UNCHANGED outcome
                   ELSE /\ outcome' = Threw(e)
                        /\ log' = log \o received
                        /\ rpc' = "failed"
                        /\ UNCHANGED calls
  /\ UNCHANGED <<config, envRegion, region, detectThrew>>

\* The line logged when the retry is answered, before its Body is looked at.
RetryLogs(resp) ==
  IF resp.kind = "ok"
  THEN << <<"info", "Successfully downloaded after redirect">> >>
  ELSE <<>>

\* The retry of a plausible slip: a redirect of the retry is followed again.
Fetch2ResponseFollowing ==
  /\ rpc = "fetch2"
  /\ \E resp \in ObjectResponses :
       /\ responses' = Append(responses, resp)
       /\ IF HasBody(resp)
          THEN /\ outcome' = Returned(resp)
               /\ rpc' = "done"
               /\ UNCHANGED calls
          ELSE IF IsRedirect(FetchError(resp)) /\ ExtractedRegion(FetchError(resp)) /= None
                  /\ Len(calls) < 4
               THEN /\ calls' = Append(calls, GetObject(ExtractedRegion(FetchError(resp))))
                    /\ UNCHANGED <<outcome, rpc>>
               ELSE /\ outcome' = Threw(FetchError(resp))
                    /\ rpc' = "failed"
                    /\ UNCHANGED calls
       /\ log' = log \o RetryLogs(resp)
  /\ UNCHANGED <<config, envRegion, region, detectThrew>>

\* The answer to the second GetObject, the retry, arrives: a Body is
\* returned, anything else is thrown to the caller.
Fetch2Response ==
  /\ rpc = "fetch2"
  /\ \E resp \in ObjectResponses :
       /\ responses' = Append(responses, resp)
       /\ IF HasBody(resp)
          THEN /\ outcome' = Returned(resp)
               /\ rpc' = "done"
          ELSE /\ outcome' = Threw(FetchError(resp))
               /\ rpc' = "failed"
       /\ log' = log \o RetryLogs(resp)
  /\ UNCHANGED <<config, envRegion, region, calls, detectThrew>>

\* ------------------------------------------------------------------------
\* downloadToFile (download.ts): any number of calls in flight, each with
\* its own locals, all on one file system.  A call runs from one await to
\* the next without interruption; fs.createWriteStream opens its file
\* later, on the event loop, so the file appears after the call that
\* chose its path has given up control.
\* ------------------------------------------------------------------------

\* The content of a file that was there before any download.
OldData == [by |-> 0, state |-> "old"]

\* A call of downloadToFile that has not been made.
NoDownload ==
  [pc |-> "idle", fileName |-> <<>>, givenFolder |-> <<>>, folder |-> <<>>,
   finalPath |-> NoPath, stream |-> "none", error |-> ""]

\* A call of downloadToFile at its entry, holding the stream it was given.
NewDownload(name, given) ==
  [pc |-> "start", fileName |-> name, givenFolder |-> given, folder |-> <<>>,
   finalPath |-> NoPath, stream |-> "open", error |-> ""]

\* The directories fs.mkdirSync(p, {recursive: true}) leaves in place.
Ancestors(p) == { SubSeq(p, 1, k) : k \in 1..Len(p) }

\* What downloadToFile never writes.
folderRest == <<fpc, settings, workspaceFolders, sysEnv, resolved>>
fileRest == <<upc, downloadFolder, fileName, overwrite, finalPath>>

\* The write of a plausible slip: the chosen name is taken in the folder at
\* once, as if the scan and the creation of the file were one step.
StartWritingReserving(p, folder, logs) ==
  \/ /\ folder \notin dirs
     /\ dl' = [dl EXCEPT ![p].pc = "failed", ![p].folder = folder,
                         ![p].error = "FolderCreateFailed"]
     /\ log' = log \o logs
     /\ UNCHANGED <<dirs, entries, fileData>>
  \/ /\ dirs' = dirs \cup Ancestors(folder)
     /\ LET path == IF overwrite THEN [dir |-> folder, name |-> dl[p].fileName]
                    ELSE GetUniqueFilePath(folder, dl[p].fileName)
        IN  /\ dl' = [dl EXCEPT ![p].pc = "opening", ![p].folder = folder,
                                ![p].finalPath = path, ![p].stream = "piped"]
            /\ entries' = entries \cup {path}
            /\ fileData' = (path :> [by |-> p, state |-> "empty"]) @@ fileData
     /\ log' = log \o logs \o << <<"info", "Saving file to">>,
                                 <<"debug", "Writing file to disk...">> >>

\* downloadToFile from ensureDownloadFolderExists to the await of the
\* pipeline, for the folder decided: the folder is created when it is not
\* there, which may fail; the path is chosen by a scan of the folder; the
\* write stream is created and the source piped into it.
StartWriting(p, folder, logs) ==
  \/ /\ folder \notin dirs
     /\ dl' = [dl EXCEPT ![p].pc = "failed", ![p].folder = folder,
                         ![p].error = "FolderCreateFailed"]
     /\ log' = log \o logs
     /\ UNCHANGED <<dirs, entries, fileData>>
  \/ /\ dirs' = dirs \cup Ancestors(folder)
     /\ LET path == IF overwrite THEN [dir |-> folder, name |-> dl[p].fileName]
                    ELSE GetUniqueFilePath(folder, dl[p].fileName)
        IN  dl' = [dl EXCEPT ![p].pc = "opening", ![p].folder = folder,
                             ![p].finalPath = path, ![p].stream = "piped"]
     /\ log' = log \o logs \o << <<"info", "Saving file to">>,
                                 <<"debug", "Writing file to disk...">> >>
     /\ UNCHANGED <<entries, fileData>>

\* downloadToFile from its entry: the folder given, or the configured one,
\* or the prompt when the settings ask for it.
DownloadToFileStart(p) ==
  /\ p \in DOMAIN dl
  /\ dl[p].pc = "start"
  /\ IF dl[p].givenFolder /= <<>>
     THEN StartWriting(p, dl[p].givenFolder, <<>>)
     ELSE IF ConfiguredDownloadFolder.value = Null
     THEN /\ dl' = [dl EXCEPT ![p].pc = "prompting"]
          /\ log' = log \o ConfiguredDownloadFolder.logs
          /\ UNCHANGED <<dirs, entries, fileData>>
     ELSE StartWriting(p, ConfiguredDownloadFolder.value.path,
                       ConfiguredDownloadFolder.logs
                         \o << <<"debug", "Using configured download folder">> >>)
  /\ UNCHANGED <<folderRest, fileRest>>

\* The folders the user may pick in the dialog: one that exists and one
\* that is gone by the time it is used.
PromptSelections == { TmpDir, <<"/", "media", "usb">> }

\* The answer to promptForDownloadLocation: a folder, or none.
PromptAnswered(p) ==
  /\ p \in DOMAIN dl
  /\ dl[p].pc = "prompting"
  /\ \/ /\ dl' = [dl EXCEPT ![p].pc = "failed",
                            ![p].error = "Download cancelled - no folder selected"]
        /\ UNCHANGED <<log, dirs, entries, fileData>>
     \/ \E sel \in PromptSelections :
          StartWriting(p, sel, << <<"info", "User selected download folder">> >>)
  /\ UNCHANGED <<folderRest, fileRest>>

\* The write stream opens its file (flag 'w': created, or emptied when it
\* is there), or fails to, and then the pipeline destroys the source.
FileOpened(p) ==
  /\ p \in DOMAIN dl
  /\ dl[p].pc = "opening"
  /\ \/ /\ entries' = entries \cup {dl[p].finalPath}
        /\ fileData' = (dl[p].finalPath :> [by |-> p, state |-> "empty"]) @@ fileData
        /\ dl' = [dl EXCEPT ![p].pc = "writing"]
     \/ /\ dl' = [dl EXCEPT ![p].pc = "failed", ![p].stream = "discarded",
                            ![p].error = "StreamError"]
        /\ UNCHANGED <<entries, fileData>>
  /\ UNCHANGED <<log, dirs, folderRest, fileRest>>

\* The pipeline ends: the source was read to its end and the file holds it,
\* or an error of either stream destroyed both and left what was written.
PipelineEnded(p) ==
  /\ p \in DOMAIN dl
  /\ dl[p].pc = "writing"
  /\ \/ /\ fileData' = (dl[p].finalPath :> [by |-> p, state |-> "full"]) @@ fileData
        /\ dl' = [dl EXCEPT ![p].pc = "done", ![p].stream = "consumed"]
        /\ log' = Append(log, <<"info", "File saved successfully">>)
     \/ /\ fileData' = (dl[p].finalPath :> [by |-> p, state |-> "partial"]) @@ fileData
        /\ dl' = [dl EXCEPT ![p].pc = "failed", ![p].stream = "discarded",
                            ![p].error = "StreamError"]
        /\ UNCHANGED log
  /\ UNCHANGED <<entries, dirs, folderRest, fileRest>>

\* ------------------------------------------------------------------------
\* The commands downloadS3File and openS3File, with downloadWithProgress
\* and openWithProgress.  One command runs; getS3Object and downloadToFile
\* are the actions above.
\* ------------------------------------------------------------------------

\* extractFilename(keyOrPath): what follows the last "/", the whole key
\* when that is empty.
ExtractFilename(key) ==
  LET slashes == {i \in 1..Len(key) : key[i] = "/"}
      last == IF slashes = {} THEN 0 ELSE CHOOSE i \in slashes : \A j \in slashes : j <= i
  IN  IF SubSeq(key, last + 1, Len(key)) = <<>> THEN key
      ELSE SubSeq(key, last + 1, Len(key))

CommandName == IF command = "download" THEN "S3 download" ELSE "S3 open file"

\* The finally block: the last line of every run of a command.
CommandEnded == <<"info", CommandName \o " command ended">>

\* The catch block of a plausible slip: the error is logged and thrown on.
CaughtAndRethrown(logs) ==
  /\ log' = log \o logs \o << <<"error", "caught">> >>
  /\ UNCHANGED shown
  /\ cpc' = "ended"
  /\ settled' = "rejected"

\* An error thrown in the try block of a command, after the lines logs:
\* the catch block logs it and shows it, the finally block logs the end,
\* and the command's promise resolves.
Caught(logs) ==
  /\ log' = log \o logs \o << <<"error", "caught">>, CommandEnded >>
  /\ shown' = Append(shown, [kind |-> "error",
                             text |-> "Failed to " \o command \o " S3 file"])
  /\ cpc' = "ended"
  /\ settled' = "resolved"

\* A return from the try block of a command, after the lines logs and the
\* messages msgs.
CommandReturned(logs, msgs) ==
  /\ log' = log \o logs \o << CommandEnded >>
  /\ shown' = shown \o msgs
  /\ cpc' = "ended"
  /\ settled' = "resolved"

\* The command up to its await of promptForS3Uri.
CommandStart ==
  /\ cpc = "start"
  /\ log' = log \o << <<"info", CommandName \o " command started">>,
                      <<"info", "Prompting user for S3 URI input">> >>
  /\ cpc' = "promptUri"
  /\ UNCHANGED <<command, shown, settled, s3Vars, folderVars, fileVars, parseVars, dlVars>>

\* The URIs the input box may hand over: a file in a bucket, the same with
\* the region in the host, a directory, and text that is no S3 URI.
CommandUris ==
  { <<S3Scheme, "bucket", "/", "reports", "/", "a", ".", "txt">>,
    <<RegionPathHost, "bucket", "/", "a", ".", "txt">>,
    <<S3Scheme, "bucket", "/", "reports", "/">>,
    <<"a">> }

\* The input box is answered.  Without a URI (dismissed, or empty) the
\* command returns.  With one, it is parsed: an invalid one is reported and
\* the command returns; a valid one starts downloadWithProgress, which
\* calls getS3Object with the bucket, key and region of the locator.
UriAnswered ==
  /\ cpc = "promptUri"
  /\ \/ /\ CommandReturned(<< <<"info", "User cancelled the S3 URI input dialog">> >>, <<>>)
        /\ UNCHANGED <<command, s3Vars, parseVars>>
     \/ \E u \in CommandUris :
          LET parsedUri == ParseAndValidateS3Uri(u).value
          IN  /\ rawUri' = u
              /\ parsed' = ParseAndValidateS3Uri(u)
              /\ ppc' = "done"
              /\ UNCHANGED <<s3UrlLib, command>>
              /\ IF ~parsedUri.isValid
                 THEN /\ CommandReturned(<< <<"info", "Input URI">>, <<"error", "Invalid S3 URI">> >>,
                                   << [kind |-> "error", text |-> "Invalid S3 URI"] >>)
                      /\ UNCHANGED s3Vars
                 ELSE /\ log' = log \o << <<"info", "Input URI">>,
                                          <<"info", "Parsed URI successfully">> >>
                      /\ config' = [bucket |-> parsedUri.bucket, key |-> parsedUri.key,
                                    region |-> parsedUri.region]
                      /\ rpc' = "start"
                      /\ cpc' = "retrieving"
                      /\ UNCHANGED <<shown, settled, envRegion, region, calls,
                                     responses, outcome, detectThrew>>
  /\ UNCHANGED <<folderVars, fileVars, dlVars>>

\* The step of a plausible slip: downloadToFile is called whatever
\* getS3Object did.
RetrievalEndedAnyOutcome ==
  /\ cpc = "retrieving"
  /\ rpc \in {"done", "failed"}
  /\ dl' = << NewDownload(ExtractFilename(config.key), <<>>) >>
  /\ cpc' = "downloading"
  /\ UNCHANGED <<log, shown, settled>>
  /\ UNCHANGED <<command, fileData, s3Vars, folderVars, fileVars, parseVars>>

\* getS3Object has ended: what it threw goes to the catch block; the
\* stream it returned is handed to downloadToFile with the file name of
\* the key, no folder and no overwrite.
RetrievalEnded ==
  /\ cpc = "retrieving"
  /\ rpc \in {"done", "failed"}
  /\ IF rpc = "failed"
     THEN Caught(<<>>) /\ UNCHANGED dl
     ELSE /\ dl' = << NewDownload(ExtractFilename(config.key), <<>>) >>
          /\ cpc' = "downloading"
          /\ UNCHANGED <<log, shown, settled>>
  /\ UNCHANGED <<command, fileData, s3Vars, folderVars, fileVars, parseVars>>

\* The step of a plausible slip: the open command opens the file whatever
\* downloadToFile did.
DownloadEndedOpensAnyway ==
  /\ cpc = "downloading"
  /\ dl[1].pc \in {"done", "failed"}
  /\ IF command = "download"
     THEN /\ log' = log \o << <<"info", "Downloaded">> >>
          /\ shown' = Append(shown, [kind |-> "info", text |-> "Successfully downloaded"])
          /\ cpc' = "notifying"
          /\ UNCHANGED settled
     ELSE /\ log' = log \o << <<"info", "Downloaded">>, <<"debug", "Opening file in VSCode">> >>
          /\ cpc' = "opening"
          /\ UNCHANGED <<shown, settled>>
  /\ UNCHANGED <<command, s3Vars, folderVars, fileVars, parseVars, dlVars>>

\* downloadToFile has ended: what it threw goes to the catch block; with
\* its result the download command shows its message with two buttons and
\* the open command opens the file, which has to exist.
DownloadEnded ==
  /\ cpc = "downloading"
  /\ dl[1].pc \in {"done", "failed"}
  /\ IF dl[1].pc = "failed"
     THEN Caught(<<>>)
     ELSE IF command = "download"
     THEN /\ log' = log \o << <<"info", "Downloaded">> >>
          /\ shown' = Append(shown, [kind |-> "info", text |-> "Successfully downloaded"])
          /\ cpc' = "notifying"
          /\ UNCHANGED settled
     ELSE IF dl[1].finalPath \notin entries
     THEN Caught(<< <<"info", "Downloaded">>, <<"debug", "Opening file in VSCode">> >>)
     ELSE /\ log' = log \o << <<"info", "Downloaded">>, <<"debug", "Opening file in VSCode">> >>
          /\ cpc' = "opening"
          /\ UNCHANGED <<shown, settled>>
  /\ UNCHANGED <<command, s3Vars, folderVars, fileVars, parseVars, dlVars>>

\* The message of the download command is answered: dismissed, or one of
\* its buttons, which starts the opening of the folder or the copy.
NotificationAnswered ==
  /\ cpc = "notifying"
  /\ \/ CommandReturned(<<>>, <<>>)
     \/ /\ cpc' = "acting"
        /\ UNCHANGED <<log, shown, settled>>
  /\ UNCHANGED <<command, s3Vars, folderVars, fileVars, parseVars, dlVars>>

\* openExternal or clipboard.writeText has ended, well or not.
ButtonActionEnded ==
  /\ cpc = "acting"
  /\ \/ CommandReturned(<<>>, <<>>)
     \/ CommandReturned(<<>>, << [kind |-> "info", text |-> "File path copied to clipboard"] >>)
     \/ Caught(<<>>)
  /\ UNCHANGED <<command, s3Vars, folderVars, fileVars, parseVars, dlVars>>

\* openTextDocument and showTextDocument have ended: the file is shown, or
\* openFileInVSCode logs what was thrown and throws it on.
OpenEnded ==
  /\ cpc = "opening"
  /\ \/ CommandReturned(<< <<"info", "File opened successfully in VSCode">>,
                     <<"info", "Downloaded">> >>,
                  << [kind |-> "info", text |-> "Successfully opened"] >>)
     \/ Caught(<< <<"error", "Failed to open file">> >>)
  /\ UNCHANGED <<command, s3Vars, folderVars, fileVars, parseVars, dlVars>>

\* ------------------------------------------------------------------------
\* Specifications: one per part of the program, the other parts at rest
\* ------------------------------------------------------------------------

\* The state of getS3Object while another part of the program is looked at.
RetrieveIdle ==
  /\ rpc = "idle"
  /\ config = [bucket |-> "bucket", key |-> "reports/q1.pdf", region |-> None]
  /\ envRegion = None
  /\ region = None
  /\ calls = <<>>
  /\ responses = <<>>
  /\ outcome = [kind |-> "pending"]
  /\ detectThrew = FALSE

\* The state of the folder resolution while another part of the program is
\* looked at.
FolderIdle ==
  /\ fpc = "idle"
  /\ settings = [downloadLocation |-> "downloads", customDownloadPath |-> <<>>,
                 alwaysPromptForLocation |-> FALSE]
  /\ workspaceFolders = [defined |-> FALSE, folders |-> <<>>]
  /\ sysEnv = [platform |-> "linux", USERPROFILE |-> <<>>, XDG_DOWNLOAD_DIR |-> <<>>]
  /\ dirs = BaseDirs
  /\ resolved = Null

\* The state of the path choice while another part of the program is
\* looked at.
FileIdle ==
  /\ upc = "idle"
  /\ downloadFolder = <<>>
  /\ fileName = <<>>
  /\ overwrite = FALSE
  /\ entries = {}
  /\ finalPath = NoPath

\* One call of getS3Object for every region argument and environment.
\* The state of the parse while another part of the program is looked at.
ParseIdle ==
  /\ ppc = "idle"
  /\ rawUri = <<>>
  /\ s3UrlLib = [keyless |-> "throws", throwsError |-> TRUE]
  /\ parsed = [kind |-> "pending"]

\* The state of downloadToFile while another part of the program is
\* looked at: no call, no file.
DownloadIdle ==
  /\ dl = <<>>
  /\ fileData = <<>>

\* The state of the commands while another part of the program is looked
\* at.
CommandIdle ==
  /\ cpc = "idle"
  /\ command = "download"
  /\ shown = <<>>
  /\ settled = "pending"

InitRetrieve ==
  /\ rpc = "start"
  /\ config \in [bucket : {"bucket"}, key : {"reports/q1.pdf"},
                 region : {None, "", "eu-west-1"}]
  /\ envRegion \in {None, "", "ap-south-1"}
  /\ region = None
  /\ calls = <<>>
  /\ responses = <<>>
  /\ outcome = [kind |-> "pending"]
  /\ detectThrew = FALSE
  /\ log = <<>>
  /\ FolderIdle
  /\ FileIdle
  /\ ParseIdle
  /\ DownloadIdle
  /\ CommandIdle

NextRetrieve ==
  \/ GetS3ObjectStart /\ UNCHANGED <<folderVars, fileVars, parseVars, dlVars, cmdVars>>
  \/ DetectResponse /\ UNCHANGED <<folderVars, fileVars, parseVars, dlVars, cmdVars>>
  \/ Fetch1Response /\ UNCHANGED <<folderVars, fileVars, parseVars, dlVars, cmdVars>>
  \/ Fetch2Response /\ UNCHANGED <<folderVars, fileVars, parseVars, dlVars, cmdVars>>

SpecRetrieve == InitRetrieve /\ [][NextRetrieve]_vars

InitFolder ==
  /\ fpc = "start"
  /\ FolderInputs
  /\ resolved = Null
  /\ log = <<>>
  /\ RetrieveIdle
  /\ FileIdle
  /\ ParseIdle
  /\ DownloadIdle
  /\ CommandIdle

NextFolder ==
  \/ ResolveFolder /\ UNCHANGED <<s3Vars, fileVars, parseVars, dlVars, cmdVars>>

SpecFolder == InitFolder /\ [][NextFolder]_vars

InitUnique ==
  /\ upc = "start"
  /\ downloadFolder = Join(TmpDir, "s3Downloader")
  /\ fileName \in FileNames
  /\ overwrite \in BOOLEAN
  /\ \E names \in SubsetsUpTo(EntryNames(fileName), MaxEntries) :
       entries = { [dir |-> downloadFolder, name |-> n] : n \in names }
  /\ finalPath = NoPath
  /\ log = <<>>
  /\ RetrieveIdle
  /\ FolderIdle
  /\ ParseIdle
  /\ DownloadIdle
  /\ CommandIdle

NextUnique ==
  \/ ChooseFinalPath /\ UNCHANGED <<s3Vars, folderVars, parseVars, dlVars, cmdVars>>

SpecUnique == InitUnique /\ [][NextUnique]_vars

InitParse ==
  /\ ppc = "start"
  /\ rawUri \in UriInputs
  /\ s3UrlLib \in [keyless : {"throws", "returns"}, throwsError : BOOLEAN]
  /\ parsed = [kind |-> "pending"]
  /\ log = <<>>
  /\ RetrieveIdle
  /\ FolderIdle
  /\ FileIdle
  /\ DownloadIdle
  /\ CommandIdle

NextParse ==
  \/ ParseUri /\ UNCHANGED <<s3Vars, log, folderVars, fileVars, dlVars, cmdVars>>

SpecParse == InitParse /\ [][NextParse]_vars

\* The folder of the temp strategy.
TmpS3 == Join(TmpDir, "s3Downloader")

\* The file systems a download starts on: directories, and files in them.
FileSystems ==
  { [dirs |-> BaseDirs, entries |-> files] :
      files \in SUBSET { [dir |-> TmpDir, name |-> <<"a", ".", "txt">>],
                         [dir |-> TmpDir, name |-> <<"a", "_", "1", ".", "txt">>] } }
  \cup
  { [dirs |-> BaseDirs \cup {TmpS3}, entries |-> files] :
      files \in SUBSET { [dir |-> TmpS3, name |-> <<"a", ".", "txt">>],
                         [dir |-> TmpDir, name |-> <<"a", ".", "txt">>] } }

\* One or two calls of downloadToFile in flight at once, for every file
\* system, with the temp strategy or the prompt.
InitDownload ==
  /\ \E n \in {1, 2} :
       dl \in [1..n -> { NewDownload(name, given) :
                           name \in { <<"a", ".", "txt">>, <<"a">> },
                           given \in { <<>>, TmpDir } }]
  /\ \E fs \in FileSystems :
       /\ dirs = fs.dirs
       /\ entries = fs.entries
       /\ fileData = [e \in fs.entries |-> OldData]
  /\ settings \in [downloadLocation : {"temp"}, customDownloadPath : {<<>>},
                   alwaysPromptForLocation : BOOLEAN]
  /\ workspaceFolders = [defined |-> FALSE, folders |-> <<>>]
  /\ sysEnv = [platform |-> "linux", USERPROFILE |-> <<>>, XDG_DOWNLOAD_DIR |-> <<>>]
  /\ fpc = "idle"
  /\ resolved = Null
  /\ upc = "idle"
  /\ downloadFolder = <<>>
  /\ fileName = <<>>
  /\ overwrite \in BOOLEAN
  /\ finalPath = NoPath
  /\ log = <<>>
  /\ RetrieveIdle
  /\ ParseIdle
  /\ CommandIdle

NextDownload ==
  \/ \E p \in {1, 2} : DownloadToFileStart(p) /\ UNCHANGED <<s3Vars, parseVars, cmdVars>>
  \/ \E p \in {1, 2} : PromptAnswered(p) /\ UNCHANGED <<s3Vars, parseVars, cmdVars>>
  \/ \E p \in {1, 2} : FileOpened(p) /\ UNCHANGED <<s3Vars, parseVars, cmdVars>>
  \/ \E p \in {1, 2} : PipelineEnded(p) /\ UNCHANGED <<s3Vars, parseVars, cmdVars>>

SpecDownload == InitDownload /\ [][NextDownload]_vars

\* One run of a command, for either command, the temp strategy or the
\* prompt, and a temp folder that is there with the file in it or is not.
InitCommand ==
  /\ cpc = "start"
  /\ command \in {"download", "open"}
  /\ shown = <<>>
  /\ settled = "pending"
  /\ log = <<>>
  /\ dl = <<>>
  /\ \E fs \in { [dirs |-> BaseDirs, entries |-> {}],
                 [dirs |-> BaseDirs \cup {TmpS3},
                  entries |-> {[dir |-> TmpS3, name |-> <<"a", ".", "txt">>]}] } :
       /\ dirs = fs.dirs
       /\ entries = fs.entries
       /\ fileData = [e \in fs.entries |-> OldData]
  /\ settings \in [downloadLocation : {"temp"}, customDownloadPath : {<<>>},
                   alwaysPromptForLocation : BOOLEAN]
  /\ workspaceFolders = [defined |-> FALSE, folders |-> <<>>]
  /\ sysEnv = [platform |-> "linux", USERPROFILE |-> <<>>, XDG_DOWNLOAD_DIR |-> <<>>]
  /\ fpc = "idle"
  /\ resolved = Null
  /\ upc = "idle"
  /\ downloadFolder = <<>>
  /\ fileName = <<>>
  /\ overwrite = FALSE
  /\ finalPath = NoPath
  /\ RetrieveIdle
  /\ ParseIdle

NextCommand ==
  \/ CommandStart
  \/ UriAnswered
  \/ GetS3ObjectStart /\ UNCHANGED <<folderVars, fileVars, parseVars, dlVars, cmdVars>>
  \/ DetectResponse /\ UNCHANGED <<folderVars, fileVars, parseVars, dlVars, cmdVars>>
  \/ Fetch1Response /\ UNCHANGED <<folderVars, fileVars, parseVars, dlVars, cmdVars>>
  \/ Fetch2Response /\ UNCHANGED <<folderVars, fileVars, parseVars, dlVars, cmdVars>>
  \/ RetrievalEnded
  \/ DownloadToFileStart(1) /\ UNCHANGED <<s3Vars, parseVars, cmdVars>>
  \/ PromptAnswered(1) /\ UNCHANGED <<s3Vars, parseVars, cmdVars>>
  \/ FileOpened(1) /\ UNCHANGED <<s3Vars, parseVars, cmdVars>>
  \/ PipelineEnded(1) /\ UNCHANGED <<s3Vars, parseVars, cmdVars>>
  \/ DownloadEnded
  \/ NotificationAnswered
  \/ ButtonActionEnded
  \/ OpenEnded

SpecCommand == InitCommand /\ [][NextCommand]_vars

\* ------------------------------------------------------------------------
\* Properties of getS3Object and detectBucketRegion (SpecRetrieve)
\* ------------------------------------------------------------------------

\* The index, in calls and responses, of the first GetObject request.
FirstFetch == IF calls /= <<>> /\ calls[1].op = "GetBucketLocation" THEN 2 ELSE 1

NumFetches == Len(SelectSeq(calls, LAMBDA c : c.op = "GetObject"))

\* A response that is a permanent-redirect failure: error kind
\* PermanentRedirect, or HTTP status 301.
PermanentRedirectFailure(resp) ==
  /\ resp.kind = "error"
  /\ (resp.error.name = "PermanentRedirect" \/ resp.error.status = 301)

\* A response with no body.
NoBody(resp) == resp.kind = "ok" /\ ~resp.Body

\* The first fetch was answered by a permanent redirect whose message names
\* a region in an endpoint.
FirstFetchRedirected ==
  /\ Len(responses) >= FirstFetch
  /\ PermanentRedirectFailure(responses[FirstFetch])
  /\ ExtractedRegion(responses[FirstFetch].error) /= None

\* C1: when the first fetch fails with a permanent redirect whose message
\* names a region, exactly one more GetObject is sent, through a client
\* bound to that region; when this second attempt is answered by a redirect
\* too, no third fetch is sent and getS3Object fails with that redirect
\* error (the failure the specification calls RedirectLoop).
C1_RetriedExactlyOnce ==
  FirstFetchRedirected =>
    /\ Len(calls) = FirstFetch + 1
    /\ NumFetches = 2
    /\ calls[FirstFetch + 1] = GetObject(ExtractedRegion(responses[FirstFetch].error))
    /\ (Len(responses) = FirstFetch + 1
          /\ PermanentRedirectFailure(responses[FirstFetch + 1]))
       => /\ rpc = "failed"
          /\ outcome = Threw(responses[FirstFetch + 1].error)

\* C1's case: both attempts were answered by a redirect that names a region.
C1_Witness ==
  /\ FirstFetchRedirected
  /\ Len(responses) = FirstFetch + 1
  /\ PermanentRedirectFailure(responses[FirstFetch + 1])
  /\ ExtractedRegion(responses[FirstFetch + 1].error) /= None
  /\ rpc = "failed"

\* Region discovery failed: GetBucketLocation was answered and
\* detectBucketRegion threw (the query failed and no region was recovered
\* from the failure).
DiscoveryFailed ==
  /\ Len(responses) >= 1
  /\ calls[1].op = "GetBucketLocation"
  /\ responses[1].kind = "error"
  /\ ~(PermanentRedirectFailure(responses[1]) /\ ExtractedRegion(responses[1].error) /= None)

\* C2: with no region known, a failure of region discovery does not abort
\* getS3Object: the region becomes AWS_REGION when that is set to a
\* non-empty value and us-east-1 otherwise, and GetObject is sent to it.
C2_DiscoveryFailureFallsBack ==
  DiscoveryFailed =>
    LET expected == IF envRegion \notin {None, ""} THEN envRegion ELSE "us-east-1"
    IN  /\ region = expected
        /\ Len(calls) >= 2
        /\ calls[2] = GetObject(expected)
        /\ (outcome.kind = "threw" => Len(responses) >= 2)

\* C2's case: discovery failed with AWS_REGION set, and the fetch went out.
C2_Witness ==
  /\ DiscoveryFailed
  /\ envRegion = "ap-south-1"
  /\ Len(calls) = 2
  /\ calls[2] = GetObject("ap-south-1")

\* C3: a second fetch is sent only after a permanent-redirect failure of
\* the first; every other failure of the first fetch (an error of another
\* kind, a response without body) is thrown to the caller after that one
\* fetch; and a response without body, on either attempt, ends
\* getS3Object with the no-content error and no further fetch.
C3_OnlyRedirectIsRetried ==
  /\ NumFetches <= 2
  /\ NumFetches = 2 => PermanentRedirectFailure(responses[FirstFetch])
  /\ (Len(responses) >= FirstFetch
        /\ ~HasBody(responses[FirstFetch])
        /\ ~PermanentRedirectFailure(responses[FirstFetch]))
     => /\ rpc = "failed"
        /\ NumFetches = 1
        /\ outcome = Threw(IF responses[FirstFetch].kind = "error"
                           THEN responses[FirstFetch].error ELSE NoContentError)
  /\ \A k \in {FirstFetch, FirstFetch + 1} :
       (Len(responses) >= k /\ NoBody(responses[k]))
         => /\ rpc = "failed"
            /\ outcome = Threw(NoContentError)
            /\ Len(calls) = k

\* C3's cases: a not-found whose message names an endpoint ended the call
\* after one fetch; a retry answered without body ended it after two.
C3_Witness ==
  /\ Len(responses) = FirstFetch
  /\ responses[FirstFetch].kind = "error"
  /\ responses[FirstFetch].error.name = "NoSuchKey"
  /\ ExtractedRegion(responses[FirstFetch].error) /= None
  /\ rpc = "failed"
  /\ NumFetches = 1

\* C4: a successful GetBucketLocation response without location marker
\* resolves to us-east-1, the marker "EU" to eu-west-1, and every other
\* marker to itself; the fetch goes to the resolved region.
C4_LocationMapping ==
  (Len(responses) >= 1 /\ calls[1].op = "GetBucketLocation" /\ responses[1].kind = "ok")
    => LET c == responses[1].LocationConstraint
           expected == IF c \in {None, ""} THEN "us-east-1"
                       ELSE IF c = "EU" THEN "eu-west-1" ELSE c
       IN  /\ region = expected
           /\ calls[2] = GetObject(expected)

\* C4's case: the legacy marker was answered and mapped.
C4_Witness ==
  /\ Len(responses) >= 1
  /\ calls[1].op = "GetBucketLocation"
  /\ responses[1].kind = "ok"
  /\ responses[1].LocationConstraint = "EU"
  /\ region = "eu-west-1"

\* GetBucketLocation was answered by an error.
DiscoveryQueryFailed ==
  /\ Len(responses) >= 1
  /\ calls[1].op = "GetBucketLocation"
  /\ responses[1].kind = "error"

\* The region token of the endpoint in a message, None when the message
\* has no endpoint of the form s3.<region>.amazonaws.com or
\* s3-<region>.amazonaws.com (the text "s3" in the region's place is none).
RegionToken(msg) ==
  IF EndpointMatch(msg) \in {None, "s3"} THEN None ELSE EndpointMatch(msg)

\* The region the fallback gives: AWS_REGION when set and not empty,
\* us-east-1 otherwise.
EnvironmentDefault == IF envRegion \notin {None, ""} THEN envRegion ELSE "us-east-1"

\* C16 as stated: whatever the kind of the discovery failure, a region
\* token in its message is recovered and used for the fetch, and the
\* environment/default fallback is used only when there is no token.
C16_TokenRecoveredForEveryKind ==
  DiscoveryQueryFailed =>
    IF RegionToken(responses[1].error.message) /= None
    THEN /\ region = RegionToken(responses[1].error.message)
         /\ calls[2] = GetObject(region)
         /\ ~detectThrew
    ELSE /\ region = EnvironmentDefault
         /\ calls[2] = GetObject(region)

\* C16, amended: when the discovery failure is a permanent redirect (error
\* kind PermanentRedirect or status 301) whose message contains a region
\* token, that region is recovered and used for the fetch; for every other
\* discovery failure, a region token in its message or not, the
\* environment/default fallback is used.
C16_TokenRecoveredForRedirects ==
  DiscoveryQueryFailed =>
    IF PermanentRedirectFailure(responses[1])
         /\ RegionToken(responses[1].error.message) /= None
    THEN /\ region = RegionToken(responses[1].error.message)
         /\ calls[2] = GetObject(region)
         /\ ~detectThrew
    ELSE /\ region = EnvironmentDefault
         /\ calls[2] = GetObject(region)
         /\ detectThrew

\* C16's case: an access-denied failure whose message names an endpoint
\* fell back to the environment's region.
C16_Witness ==
  /\ DiscoveryQueryFailed
  /\ responses[1].error.name = "AccessDenied"
  /\ RegionToken(responses[1].error.message) = "eu-central-1"
  /\ envRegion = "ap-south-1"
  /\ calls[2] = GetObject("ap-south-1")

NumDiscoveries == Len(SelectSeq(calls, LAMBDA c : c.op = "GetBucketLocation"))

\* C17: once getS3Object has started, a GetBucketLocation query has been
\* sent exactly when no region was given, at most once and first of all
\* requests, through a client bound to us-east-1; with a region given the
\* first request is the GetObject bound to that region.
C17_DiscoveryIffNoRegion ==
  rpc \notin {"idle", "start"} =>
    /\ NumDiscoveries <= 1
    /\ NumDiscoveries = 1 <=> config.region \in {None, ""}
    /\ NumDiscoveries = 1 => calls[1] = [op |-> "GetBucketLocation", region |-> "us-east-1"]
    /\ config.region \notin {None, ""} => calls[1] = GetObject(config.region)

\* C17's case: a region was given, the call came to its end after a retry
\* and no discovery query was ever sent.
C17_Witness ==
  /\ config.region = "eu-west-1"
  /\ rpc = "done"
  /\ Len(calls) = 2
  /\ NumDiscoveries = 0
  /\ calls[1] = GetObject("eu-west-1")

\* C18: when the first fetch fails with a permanent redirect whose message
\* yields no region (no endpoint in it, no message, or "s3" in the region's
\* place), no retry is sent and that redirect error is thrown unchanged.
C18_RedirectWithoutRegionRethrown ==
  (Len(responses) >= FirstFetch
     /\ PermanentRedirectFailure(responses[FirstFetch])
     /\ EndpointMatch(responses[FirstFetch].error.message) \in {None, "s3"})
  => /\ rpc = "failed"
     /\ outcome = Threw(responses[FirstFetch].error)
     /\ Len(calls) = FirstFetch
     /\ NumFetches = 1

\* C18's case: the endpoint of the redirect has "s3" in the region's place.
C18_Witness ==
  /\ Len(responses) = FirstFetch
  /\ PermanentRedirectFailure(responses[FirstFetch])
  /\ EndpointMatch(responses[FirstFetch].error.message) = "s3"
  /\ rpc = "failed"
  /\ outcome = Threw(responses[FirstFetch].error)

\* ------------------------------------------------------------------------
\* Properties of the destination-folder resolution (SpecFolder)
\* ------------------------------------------------------------------------

\* The levels of the warnings and errors logged, in order.
LoggedAlerts ==
  LET alerts == SelectSeq(log, LAMBDA entry : entry[1] \in {"warn", "error"})
  IN  [i \in 1..Len(alerts) |-> alerts[i][1]]

CustomResolved ==
  /\ fpc = "done"
  /\ ~settings.alwaysPromptForLocation
  /\ settings.downloadLocation = "custom"

\* customDownloadPath is empty, not absolute, or its parent does not exist.
CustomPathUnusable ==
  \/ settings.customDownloadPath = <<>>
  \/ ~(settings.customDownloadPath /= <<>> /\ settings.customDownloadPath[1] = "/")
  \/ Dirname(settings.customDownloadPath) \notin dirs

\* C7 as stated: with the custom strategy, an empty, non-absolute or
\* parentless customDownloadPath resolves to the downloads folder with an
\* error and a warning logged, any other to the configured path.
C7_ErrorWarningPairAlways ==
  CustomResolved =>
    IF CustomPathUnusable
    THEN /\ resolved = Folder(SystemDownloadsFolder)
         /\ \E i, j \in 1..Len(LoggedAlerts) :
              LoggedAlerts[i] = "error" /\ LoggedAlerts[j] = "warn"
    ELSE resolved = Folder(settings.customDownloadPath)

\* C7, amended: with the custom strategy, an empty or blank
\* customDownloadPath resolves to the downloads folder with a warning and
\* no error logged; a non-blank path that is not absolute or whose parent
\* does not exist resolves to the downloads folder with an error and then a
\* warning logged; any other resolves to the configured path with neither.
C7_FallbackWithNotice ==
  CustomResolved =>
    IF CustomPathUnusable
    THEN /\ resolved = Folder(SystemDownloadsFolder)
         /\ LoggedAlerts = IF IsBlank(settings.customDownloadPath)
                           THEN <<"warn">> ELSE <<"error", "warn">>
    ELSE /\ resolved = Folder(settings.customDownloadPath)
         /\ LoggedAlerts = <<>>

\* C7's case: an absolute path below a directory that does not exist fell
\* back to the downloads folder.
C7_Witness ==
  /\ CustomResolved
  /\ settings.customDownloadPath = <<"/", "missing", "s3">>
  /\ resolved = Folder(SystemDownloadsFolder)
  /\ LoggedAlerts = <<"error", "warn">>

\* downloadLocation is none of the four strategies.
UnknownStrategy ==
  settings.downloadLocation \notin {"downloads", "workspace", "temp", "custom"}

\* The workspace strategy is set and no project is open.
NoWorkspace ==
  /\ settings.downloadLocation = "workspace"
  /\ (~workspaceFolders.defined \/ workspaceFolders.folders = <<>>)

C8_WitnessUnknown ==
  /\ fpc = "done"
  /\ ~settings.alwaysPromptForLocation
  /\ UnknownStrategy
  /\ resolved = Folder(SystemDownloadsFolder)

\* ------------------------------------------------------------------------
\* Properties of the choice of the final path (SpecUnique)
\* ------------------------------------------------------------------------

\* Whether folder/name exists, read off the folder's entries.
Occupied(name) ==
  \/ [dir |-> downloadFolder, name |-> name] \in entries
  \/ name \in {<<".">>, <<".", ".">>}

\* <name>_<n><ext> of fileName.
Numbered(n) == Suffixed(fileName, n)

\* C5: without overwrite the path chosen is folder/fileName when that does
\* not exist, and otherwise folder/<name>_<n><ext> for the lowest n >= 1
\* whose path does not exist; the chosen path does not exist when the scan
\* returns.
C5_LowestFreeSuffix ==
  (upc = "done" /\ ~overwrite) =>
    /\ finalPath.dir = downloadFolder
    /\ ~Occupied(finalPath.name)
    /\ IF ~Occupied(fileName)
       THEN finalPath.name = fileName
       ELSE \E n \in 1..(Cardinality(entries) + 1) :
              /\ finalPath.name = Numbered(n)
              /\ \A m \in 1..(n - 1) : Occupied(Numbered(m))

\* C5's case: a.txt and a_1.txt exist and a_2.txt is chosen.
C5_Witness ==
  /\ upc = "done"
  /\ ~overwrite
  /\ fileName = <<"a", ".", "txt">>
  /\ Occupied(<<"a", ".", "txt">>)
  /\ Occupied(<<"a", "_", "1", ".", "txt">>)
  /\ finalPath.name = <<"a", "_", "2", ".", "txt">>

\* ------------------------------------------------------------------------
\* Properties of parseAndValidateS3Uri (SpecParse)
\* ------------------------------------------------------------------------

PackageThrew == Trim(rawUri) /= <<>> /\ ParseS3Url(Trim(rawUri)).threw

\* C10: parseAndValidateS3Uri returns a record for every input and never
\* throws; when the package throws, the record is invalid, its bucket and
\* key are empty and its errorMessage says what failed.
C10_ParseNeverRaises ==
  ppc = "done" =>
    /\ parsed.kind = "returned"
    /\ parsed.value.isValid \in BOOLEAN
    /\ PackageThrew =>
         /\ ~parsed.value.isValid
         /\ parsed.value.bucket = <<>>
         /\ parsed.value.key = <<>>
         /\ parsed.value.errorMessage
              \in {"Failed to parse S3 URI: Invalid S3 URL",
                   "Failed to parse S3 URI: Invalid S3 URI format"}

\* C10's case: the package threw something that is no Error.
C10_Witness ==
  /\ ppc = "done"
  /\ PackageThrew
  /\ ~s3UrlLib.throwsError
  /\ parsed.kind = "returned"
  /\ parsed.value.errorMessage = "Failed to parse S3 URI: Invalid S3 URI format"

\* ------------------------------------------------------------------------
\* Properties of the commands (SpecCommand)
\* ------------------------------------------------------------------------

\* The locator was parsed and found valid, or found invalid.
LocatorValid == ppc = "done" /\ parsed.value.isValid
LocatorInvalid == ppc = "done" /\ ~parsed.value.isValid

\* downloadToFile was called; it went as far as the write; the file system
\* differs between the two states of a step.
DownloadCalled == dl /= <<>>
WriteStarted == DownloadCalled /\ dl[1].finalPath /= NoPath
FileSystemChanged == dirs' /= dirs \/ entries' /= entries \/ fileData' /= fileData

\* The open step was started, or has shown the file.
OpenStarted ==
  \/ cpc = "opening"
  \/ \E i \in 1..Len(shown) : shown[i].text = "Successfully opened"
  \/ \E i \in 1..Len(log) : log[i] = <<"error", "Failed to open file">>

\* A stage starts only after the stage before it has ended well.
StagesInOrder ==
  /\ (rpc /= "idle" \/ calls /= <<>>) => LocatorValid
  /\ LocatorInvalid => (calls = <<>> /\ ~DownloadCalled)
  /\ DownloadCalled => rpc = "done"
  /\ rpc = "failed" => ~DownloadCalled
  /\ WriteStarted => dl[1].folder /= <<>>
  /\ cpc \in {"notifying", "acting"} => (DownloadCalled /\ dl[1].pc = "done")
  /\ OpenStarted => (DownloadCalled /\ dl[1].pc = "done")

\* A stage that has ended is not run again, and the file system is touched
\* by downloadToFile only, after a retrieval that ended well.
StagesRunOnce ==
  /\ ppc = "done" => parsed' = parsed
  /\ rpc \in {"done", "failed"} => (rpc' = rpc /\ calls' = calls /\ outcome' = outcome)
  /\ (DownloadCalled /\ dl[1].pc \in {"done", "failed"}) =>
       (dl' = dl /\ ~FileSystemChanged)
  /\ FileSystemChanged => (DownloadCalled /\ rpc = "done" /\ LocatorValid)
  /\ cpc = "ended" => cpc' = "ended"

\* C11: the stages parse, retrieve, resolve destination, materialize and
\* open run in this order, each started only after the one before it ended
\* well: an invalid locator sends no request and writes nothing, a failed
\* retrieval resolves and creates no folder and writes no file, the open
\* step runs only after a download that ended well, and no stage that has
\* ended is run again.
C11_LinearPipeline == []StagesInOrder /\ [][StagesRunOnce]_vars

\* C11's case: the open command went through every stage and showed the
\* file.
C11_Witness ==
  /\ command = "open"
  /\ cpc = "ended"
  /\ LocatorValid
  /\ rpc = "done"
  /\ dl[1].pc = "done"
  /\ \E i \in 1..Len(shown) : shown[i].text = "Successfully opened"

\* A prompt the user can cancel is open: the input box of the URI, or the
\* folder dialog.
UriPromptOpen == cpc = "promptUri"
FolderPromptOpen == DownloadCalled /\ dl[1].pc = "prompting"
FolderPromptCancelled ==
  DownloadCalled /\ dl[1].error = "Download cancelled - no folder selected"

PromptPlaces ==
  /\ UriPromptOpen => (calls = <<>> /\ ~DownloadCalled)
  /\ FolderPromptOpen => (rpc = "done" /\ NumFetches >= 1 /\ ~WriteStarted)
  /\ FolderPromptCancelled => (dl[1].pc = "failed" /\ dl[1].folder = <<>> /\ ~WriteStarted)
  /\ rpc \in {"start", "detecting", "fetch1", "fetch2"} => ~(UriPromptOpen \/ FolderPromptOpen)
  /\ (DownloadCalled /\ dl[1].pc \in {"opening", "writing"}) => ~(UriPromptOpen \/ FolderPromptOpen)

\* Cancelling a prompt sends nothing and leaves the file system as it is,
\* and the file system changes only for a download that has its folder.
PromptCancels ==
  /\ (UriPromptOpen /\ cpc' = "ended" /\ ppc' /= "done") =>
       (calls' = <<>> /\ ~FileSystemChanged /\ dl' = <<>>)
  /\ (FolderPromptOpen /\ dl'[1].pc = "failed") => (calls' = calls /\ ~FileSystemChanged)
  /\ FileSystemChanged => dl'[1].folder /= <<>>

C13_StreamSettled ==
  (cpc = "ended" /\ rpc = "done") => dl[1].stream \in {"consumed", "discarded"}

\* Something failed in the run: the locator, the retrieval, the download
\* or the opening.
RunFailed ==
  \/ LocatorInvalid
  \/ rpc = "failed"
  \/ (DownloadCalled /\ dl[1].pc = "failed")
  \/ \E i \in 1..Len(log) : log[i] = <<"error", "Failed to open file">>

\* C14: no error escapes a command: its promise is never rejected; when it
\* has ended the promise is resolved, the last line logged is the command's
\* "command ended", and a run in which something failed has shown an error
\* message; and a command that has not ended can always take a step when
\* what it waits for answers.
C14_CommandAlwaysEnds ==
  /\ settled /= "rejected"
  /\ cpc = "ended" =>
       /\ settled = "resolved"
       /\ log /= <<>> /\ log[Len(log)] = CommandEnded
       /\ RunFailed => \E i \in 1..Len(shown) : shown[i].kind = "error"
  /\ cpc /= "ended" => (settled = "pending" /\ ENABLED NextCommand)

\* C14's case: the write failed, the error was shown and the command ended.
C14_Witness ==
  /\ cpc = "ended"
  /\ DownloadCalled /\ dl[1].pc = "failed" /\ dl[1].error = "StreamError"
  /\ shown = << [kind |-> "error", text |-> "Failed to " \o command \o " S3 file"] >>
  /\ log[Len(log)] = CommandEnded

\* ------------------------------------------------------------------------
\* Properties of downloadToFile (SpecDownload)
\* ------------------------------------------------------------------------

\* Two calls for the same file in the same folder, without overwrite.
SameTarget(p, q) ==
  /\ p /= q
  /\ dl[p].fileName = dl[q].fileName
  /\ dl[p].folder = dl[q].folder
  /\ ~overwrite

\* C15: the scan of the folder and the creation of the file are not one
\* step: of two calls for the same file in the same folder that have both
\* chosen their path and not yet opened it, the second chose the path of
\* the first, so both write the same file.
C15_ScanNotAtomic ==
  \A p, q \in DOMAIN dl :
    (SameTarget(p, q) /\ dl[p].pc = "opening" /\ dl[q].pc = "opening")
      => dl[p].finalPath = dl[q].finalPath

\* C15's case: both calls have written the same file to its end.
C15_Witness ==
  /\ Len(dl) = 2
  /\ SameTarget(1, 2)
  /\ dl[1].pc = "done" /\ dl[2].pc = "done"
  /\ dl[1].finalPath = dl[2].finalPath
  /\ dl[1].finalPath.name = <<"a", "_", "1", ".", "txt">>

\* A single call without overwrite; the files that were not there before.
SingleDownload == Len(dl) = 1 /\ ~overwrite
NewFiles == { e \in entries : fileData[e] /= OldData }

\* Every file that was there before the step is there after it, unchanged.
OldFilesKept ==
  \A e \in entries : fileData[e] = OldData => (e \in entries' /\ fileData'[e] = OldData)

\* C19 as stated: a single call that went as far as the write has created
\* exactly one new file when it ends, well or not, and no file that was
\* there before has changed.
C19_ExactlyOneNewFile ==
  (SingleDownload /\ dl[1].finalPath /= NoPath /\ dl[1].pc \in {"done", "failed"})
    => NewFiles = {dl[1].finalPath}

\* C19, amended: a single call without overwrite creates at most one new
\* file, the one of its final path: exactly that one once the write stream
\* has opened it, whether the write then ends well or fails, and none when
\* the file cannot be opened; and every file that was there before stays,
\* unchanged.
C19_AtMostOneNewFile ==
  /\ [](SingleDownload =>
          /\ NewFiles \subseteq {dl[1].finalPath}
          /\ dl[1].pc \in {"writing", "done"} => NewFiles = {dl[1].finalPath}
          /\ dl[1].pc \in {"start", "prompting", "opening"} => NewFiles = {})
  /\ [][SingleDownload => OldFilesKept]_vars

\* C19's case: the write failed part-way beside a file of the same name
\* that was there before.
C19_Witness ==
  /\ SingleDownload
  /\ dl[1].pc = "failed"
  /\ dl[1].finalPath = [dir |-> TmpDir, name |-> <<"a", "_", "1", ".", "txt">>]
  /\ dl[1].finalPath \in entries
  /\ fileData[dl[1].finalPath].state = "partial"
  /\ [dir |-> TmpDir, name |-> <<"a", ".", "txt">>] \in entries
  /\ fileData[[dir |-> TmpDir, name |-> <<"a", ".", "txt">>]] = OldData

====
